---- MODULE Spec2Model ----
(***************************************************************************)
(* Model of notebooks/recommender_system.ipynb: BingeDataset and           *)
(* RecommenderSystem.  Library calls (pandas, numpy, scikit-learn,         *)
(* implicit) are modelled by what they do on the values the notebook       *)
(* passes them.  Numeric factor values of the ALS model are not computed:  *)
(* the ranking they induce is left unconstrained.                          *)
(***************************************************************************)
EXTENDS Integers, Sequences, FiniteSets, TLC

VARIABLES
    NUMBER_OF_RATING_ADDRESSES, \* BingeDataset.NUMBER_OF_RATING_ADDRESSES
    files,                      \* rating files on disk, by address
    df,                         \* RecommenderSystem.df: movie_id -> score
    sparse_matrix,              \* RecommenderSystem.sparse_matrix: user -> movie -> rating
    model,                      \* RecommenderSystem.model
    model_file,                 \* content of the file at model_save_address
    split,                      \* X_train / X_test of the last fit
    read_log,                   \* addresses read by the last get_cleaned_ratings
    ret                         \* outcome of the last call

vars == <<NUMBER_OF_RATING_ADDRESSES, files, df, sparse_matrix, model,
          model_file, split, read_log, ret>>

----------------------------------------------------------------------------
(* Bounds *)

MaxFiles == 4
MaxRows == 1
NMovies == 2
MaxScore == 2
MaxN == 2
MaxPool == 2
NUsers == 2
NColumns == 1
MaxRating == 1
ThresholdStep == 25

(* Program constants *)

MinThreshold == 0
MaxThreshold == 100
DefaultTestSize == 2
ConfiguredAddresses == 4

----------------------------------------------------------------------------
(* Generic helpers *)

None == [kind |-> "None"]

Range(s) == {s[i] : i \in DOMAIN s}

Min(a, b) == IF a <= b THEN a ELSE b

Abs(x) == IF x < 0 THEN -x ELSE x

IsInjective(s) == \A i, j \in DOMAIN s : i # j => s[i] # s[j]

Result(op, a, b, c, err, out, flag, pool) ==
    [op |-> op, a |-> a, b |-> b, c |-> c, err |-> err, out |-> out,
     flag |-> flag, pool |-> pool]

NoCall == Result("none", -1, -1, -1, "", <<>>, FALSE, <<>>)

----------------------------------------------------------------------------
(* RecommenderSystem.recommend_for_new_users *)

MovieIds == 0 .. NMovies - 1

Scores == 0 .. MaxScore

\* sort_values with ascending=True: the movies by non-decreasing score
SortValuesAscending(d) ==
    {s \in [1 .. Cardinality(DOMAIN d) -> DOMAIN d] :
        /\ IsInjective(s)
        /\ \A i, j \in DOMAIN s : i < j => d[s[i]] <= d[s[j]]}

\* df.sort_values(by="score", ascending=False)["movie_id"].unique():
\* the movies of df, each once, by non-increasing score.  There is no
\* second sort key and the default sort kind is not stable, so the order
\* among equal scores is any.
SortValuesDescending(d) ==
    {s \in [1 .. Cardinality(DOMAIN d) -> DOMAIN d] :
        /\ IsInjective(s)
        /\ \A i, j \in DOMAIN s : i < j => d[s[i]] >= d[s[j]]}

\* array[:size_of_pool_to_select_from]
Head_(s, k) == SubSeq(s, 1, Min(k, Len(s)))

\* np.random.randint(0, high, n): n draws from 0 .. high-1, with repetition
RandInt(high, n) == [1 .. n -> 0 .. high - 1]

recommend_for_new_users(n_movies, size_of_pool_to_select_from) ==
    /\ n_movies \in 1 .. MaxN
    /\ size_of_pool_to_select_from \in 0 .. MaxPool
    /\ IF size_of_pool_to_select_from <= 0
       THEN ret' = Result("new_users", n_movies, size_of_pool_to_select_from,
                          -1, "ValueError", <<>>, FALSE, <<>>)
       ELSE \E sorted \in SortValuesDescending(df) :
            \E movies_to_select \in
                   RandInt(size_of_pool_to_select_from, n_movies) :
              LET pool == Head_(sorted, size_of_pool_to_select_from) IN
              IF \E k \in DOMAIN movies_to_select :
                     movies_to_select[k] >= Len(pool)
              THEN ret' = Result("new_users", n_movies,
                                 size_of_pool_to_select_from, -1,
                                 "IndexError", <<>>, FALSE, pool)
              ELSE ret' = Result("new_users", n_movies,
                                 size_of_pool_to_select_from, -1, "",
                                 [k \in 1 .. n_movies |->
                                     pool[movies_to_select[k] + 1]],
                                 FALSE, pool)
    /\ UNCHANGED <<NUMBER_OF_RATING_ADDRESSES, files, df, sparse_matrix,
                   model, model_file, split, read_log>>

----------------------------------------------------------------------------
(* RecommenderSystem.compare_movies *)

\* thresholds tried: one below and one above the legal range, and the
\* multiples of ThresholdStep inside it
Thresholds ==
    {t \in MinThreshold - 1 .. MaxThreshold + 1 :
        t < MinThreshold \/ t > MaxThreshold \/ t % ThresholdStep = 0}

\* the comparison with >= in place of >
DifferenceExceedsOrEqual(movie_one_score, movie_two_score, threshold) ==
    LET num == (movie_one_score - movie_two_score) * 100
        den == movie_one_score
    IN  IF den = 0 THEN num # 0
        ELSE Abs(num) >= threshold * Abs(den)

\* abs(((one - two) / one) * 100) > threshold on numpy floats.  The quotient
\* is kept as numerator and denominator.  A zero denominator does not raise:
\* x/0 is inf (greater than any threshold) and 0/0 is nan (greater than none).
DifferenceExceeds(movie_one_score, movie_two_score, threshold) ==
    LET num == (movie_one_score - movie_two_score) * 100
        den == movie_one_score
    IN  IF den = 0 THEN num # 0
        ELSE Abs(num) > threshold * Abs(den)

compare_movies(movie_one_id, movie_two_id, threshold) ==
    /\ movie_one_id \in 0 .. NMovies
    /\ movie_two_id \in 0 .. NMovies
    /\ threshold \in Thresholds
    /\ ret' =
         IF threshold > MaxThreshold \/ threshold < MinThreshold
         THEN Result("compare", movie_one_id, movie_two_id, threshold,
                     "ValueError", <<>>, FALSE, <<>>)
         ELSE IF movie_one_id \notin DOMAIN df \/ movie_two_id \notin DOMAIN df
         THEN Result("compare", movie_one_id, movie_two_id, threshold,
                     "IndexError", <<>>, FALSE, <<>>)
         ELSE Result("compare", movie_one_id, movie_two_id, threshold, "",
                     <<>>,
                     DifferenceExceeds(df[movie_one_id], df[movie_two_id],
                                       threshold),
                     <<>>)
    /\ UNCHANGED <<NUMBER_OF_RATING_ADDRESSES, files, df, sparse_matrix,
                   model, model_file, split, read_log>>

----------------------------------------------------------------------------
(* BingeDataset.get_cleaned_ratings *)

\* config["rating_address_template"], cut at its only "x"
rating_address_template == <<"dataset/raw/binge/rating_", "x", ".csv">>

\* str.replace("x", str(i))
Replace(template, i) ==
    [k \in DOMAIN template |->
        IF template[k] = "x" THEN ToString(i) ELSE template[k]]

\* range(1, stop)
PyRange1(stop) == [k \in 1 .. stop - 1 |-> k]

RECURSIVE Concat(_)
\* pd.concat(frames): the rows of the frames, in order
Concat(frames) ==
    IF frames = <<>> THEN <<>>
    ELSE frames[1] \o Concat(Tail(frames))

\* .drop(columns="datetime") on rows <<movie_id, user_id, datetime, rating>>
DropDatetime(rows) ==
    [k \in DOMAIN rows |-> <<rows[k][1], rows[k][2], rows[k][4]>>]

get_cleaned_ratings ==
    LET indices == PyRange1(NUMBER_OF_RATING_ADDRESSES)
        addresses == [k \in DOMAIN indices |->
                         Replace(rating_address_template, indices[k])]
        rating_dfs == [k \in DOMAIN addresses |-> files[addresses[k]]]
    IN  /\ read_log' = addresses
        /\ ret' = IF rating_dfs = <<>>
                  THEN Result("ratings", NUMBER_OF_RATING_ADDRESSES, -1, -1,
                              "ValueError", <<>>, FALSE, <<>>)
                  ELSE Result("ratings", NUMBER_OF_RATING_ADDRESSES, -1, -1,
                              "", DropDatetime(Concat(rating_dfs)), FALSE,
                              <<>>)
        /\ UNCHANGED <<NUMBER_OF_RATING_ADDRESSES, files, df, sparse_matrix,
                       model, model_file, split>>

----------------------------------------------------------------------------
(* RecommenderSystem.fit, load_model, recommend_for_user *)

UserIds == 0 .. NUsers - 1

ColumnIds == 0 .. NColumns - 1

Shape(m) == <<Cardinality(DOMAIN m), NColumns>>

\* test_size in tenths: the default 0.2, a half, and the illegal 1.0
TestSizes == {DefaultTestSize, 5, 10}

\* sklearn train_test_split on the rows of the matrix: the row indices of
\* the train and of the test part.  n_test = ceil(test_size * n_samples),
\* n_train = n_samples - n_test; with shuffle the parts are cut from a random
\* permutation of the rows, without shuffle from the rows in order.
RowPermutations(n) ==
    {p \in [0 .. n - 1 -> 0 .. n - 1] : \A i, j \in 0 .. n - 1 : i # j => p[i] # p[j]}

NTest(n_samples, test_size) == (test_size * n_samples + 9) \div 10

TrainTestIndices(n_samples, test_size, shuffle) ==
    LET n_test == NTest(n_samples, test_size)
        n_train == n_samples - n_test
    IN  {[train |-> [k \in 0 .. n_train - 1 |-> p[n_test + k]],
          test |-> [k \in 0 .. n_test - 1 |-> p[k]]] :
            p \in IF shuffle THEN RowPermutations(n_samples)
                  ELSE {[k \in 0 .. n_samples - 1 |->
                            (k + n_train) % n_samples]}}

\* matrix[indices]: the rows picked by indices, renumbered from 0
TakeRows(matrix, indices) == [k \in DOMAIN indices |-> matrix[indices[k]]]

\* AlternatingLeastSquares().fit(user_items): one user-factor row per row of
\* user_items, learned from that row.  rows[k] names the row of sparse_matrix
\* that row k of user_items is.
ALS(user_items, rows) ==
    [kind |-> "ALS", user_items |-> user_items, rows |-> rows]

\* fit without its model.save(model_save_address)
fit_without_save(test_size, shuffle) ==
    /\ test_size \in TestSizes
    /\ shuffle \in BOOLEAN
    /\ IF test_size >= 10 \/ NUsers - NTest(NUsers, test_size) <= 0
       THEN /\ ret' = Result("fit", test_size, -1, -1, "ValueError", <<>>,
                             shuffle, <<>>)
            /\ UNCHANGED <<model, model_file, split>>
       ELSE \E ix \in TrainTestIndices(NUsers, test_size, shuffle) :
              LET X_train == TakeRows(sparse_matrix, ix.train)
                  X_test == TakeRows(sparse_matrix, ix.test)
              IN  /\ model' = ALS(X_train, ix.train)
                  /\ split' = [train |-> X_train, test |-> X_test]
                  /\ UNCHANGED model_file
                  /\ ret' = Result("fit", test_size, -1, -1, "", <<>>,
                                   shuffle, <<>>)
    /\ UNCHANGED <<NUMBER_OF_RATING_ADDRESSES, files, df, sparse_matrix,
                   read_log>>

\* fit: split, train on X_train, evaluate, save.  test_score is a number
\* computed from the factor values and is not part of the state.
fit(test_size, shuffle) ==
    /\ test_size \in TestSizes
    /\ shuffle \in BOOLEAN
    /\ IF test_size >= 10 \/ NUsers - NTest(NUsers, test_size) <= 0
       THEN /\ ret' = Result("fit", test_size, -1, -1, "ValueError", <<>>,
                             shuffle, <<>>)
            /\ UNCHANGED <<model, model_file, split>>
       ELSE \E ix \in TrainTestIndices(NUsers, test_size, shuffle) :
              LET X_train == TakeRows(sparse_matrix, ix.train)
                  X_test == TakeRows(sparse_matrix, ix.test)
              IN  /\ model' = ALS(X_train, ix.train)
                  /\ split' = [train |-> X_train, test |-> X_test]
                  /\ model_file' = model'
                  /\ ret' = Result("fit", test_size, -1, -1, "", <<>>,
                                   shuffle, <<>>)
    /\ UNCHANGED <<NUMBER_OF_RATING_ADDRESSES, files, df, sparse_matrix,
                   read_log>>

\* RecommenderSystem.__init__ run again on the same dataset: the model is
\* what load_model finds at model_save_address.
load_model ==
    /\ model' = model_file
    /\ ret' = Result("init", -1, -1, -1, "", <<>>, FALSE, <<>>)
    /\ UNCHANGED <<NUMBER_OF_RATING_ADDRESSES, files, df, sparse_matrix,
                   model_file, split, read_log>>

\* the columns with a nonzero entry in a row
Liked(row) == {c \in DOMAIN row : row[c] # 0}

RECURSIVE TopN(_, _, _)
\* the first n entries of ranking that are not in filtered
TopN(ranking, filtered, n) ==
    IF n = 0 \/ ranking = <<>> THEN <<>>
    ELSE IF Head(ranking) \in filtered
    THEN TopN(Tail(ranking), filtered, n)
    ELSE <<Head(ranking)>> \o TopN(Tail(ranking), filtered, n - 1)

\* the columns by descending score user_factors[userid] . item_factors:
\* some order of all columns
Rankings == {s \in [1 .. NColumns -> ColumnIds] : IsInjective(s)}

recommend_for_user(user_id, number_of_movies_to_recommend) ==
    /\ user_id \in 0 .. NUsers
    /\ number_of_movies_to_recommend \in 1 .. NColumns + 1
    /\ IF model = None
       THEN ret' = Result("recommend", user_id,
                          number_of_movies_to_recommend, -1,
                          "AttributeError", <<>>, FALSE, <<>>)
       ELSE IF user_id \notin DOMAIN sparse_matrix
               \/ user_id \notin DOMAIN model.user_items
       THEN ret' = Result("recommend", user_id,
                          number_of_movies_to_recommend, -1, "IndexError",
                          <<>>, FALSE, <<>>)
       ELSE \E ranking \in Rankings :
              ret' = Result("recommend", user_id,
                            number_of_movies_to_recommend, -1, "",
                            TopN(ranking, Liked(sparse_matrix[user_id]),
                                 number_of_movies_to_recommend),
                            FALSE, <<>>)
    /\ UNCHANGED <<NUMBER_OF_RATING_ADDRESSES, files, df, sparse_matrix,
                   model, model_file, split, read_log>>

----------------------------------------------------------------------------
(* Initial states: the object after RecommenderSystem.__init__ *)

Addresses == {Replace(rating_address_template, i) : i \in 1 .. MaxFiles}

RatingRows == {<<m, 0, 0, MaxRating>> : m \in MovieIds}

FileContents ==
    UNION {[1 .. n -> RatingRows] : n \in 0 .. MaxRows}

ScoreTables == UNION {[S -> Scores] : S \in SUBSET MovieIds}

Matrices == [UserIds -> [ColumnIds -> 0 .. MaxRating]]

EmptyFiles == [a \in Addresses |-> <<>>]

ZeroMatrix == [u \in UserIds |-> [c \in ColumnIds |-> 0]]

\* no model file at model_save_address: load_model returns None
InitCommon ==
    /\ model = None
    /\ model_file = None
    /\ split = None
    /\ read_log = <<>>
    /\ ret = NoCall

InitData ==
    /\ NUMBER_OF_RATING_ADDRESSES \in 1 .. MaxFiles
    /\ files \in [Addresses -> FileContents]
    /\ df = <<>>
    /\ sparse_matrix = ZeroMatrix
    /\ InitCommon

InitColdStart ==
    /\ NUMBER_OF_RATING_ADDRESSES = ConfiguredAddresses
    /\ files = EmptyFiles
    /\ df \in ScoreTables
    /\ sparse_matrix = ZeroMatrix
    /\ InitCommon

InitCompare ==
    /\ NUMBER_OF_RATING_ADDRESSES = ConfiguredAddresses
    /\ files = EmptyFiles
    /\ df \in [MovieIds -> Scores]
    /\ sparse_matrix = ZeroMatrix
    /\ InitCommon

InitModel ==
    /\ NUMBER_OF_RATING_ADDRESSES = ConfiguredAddresses
    /\ files = EmptyFiles
    /\ df = <<>>
    /\ sparse_matrix \in Matrices
    /\ InitCommon

NextData == get_cleaned_ratings

NextColdStart ==
    \E n \in 1 .. MaxN, p \in 0 .. MaxPool : recommend_for_new_users(n, p)

NextCompare ==
    \E a, b \in 0 .. NMovies, t \in Thresholds : compare_movies(a, b, t)

NextModel ==
    \/ \E t \in TestSizes, s \in BOOLEAN : fit(t, s)
    \/ load_model
    \/ \E u \in 0 .. NUsers, n \in 1 .. NColumns + 1 :
          recommend_for_user(u, n)

SpecData == InitData /\ [][NextData]_vars

SpecColdStart == InitColdStart /\ [][NextColdStart]_vars

SpecCompare == InitCompare /\ [][NextCompare]_vars

SpecModel == InitModel /\ [][NextModel]_vars

----------------------------------------------------------------------------
(* Claims *)

Available == Cardinality(DOMAIN df)

\* C1: no item returned by recommend_for_user(user_id, n) has a nonzero entry
\* in row user_id of the matrix the model was trained on.
C1_NoTrainedItemReturned ==
    (ret.op = "recommend" /\ ret.err = "") =>
        \A k \in DOMAIN ret.out : model.user_items[ret.a][ret.out[k]] = 0

\* C2: for n <= pool_size <= number of available items the cold-start call
\* returns exactly n pairwise distinct items, all from the pool.
C2_SampleWithoutReplacement ==
    (ret.op = "new_users" /\ 1 <= ret.a /\ ret.a <= ret.b
        /\ ret.b <= Available) =>
        /\ ret.err = ""
        /\ Len(ret.out) = ret.a
        /\ IsInjective(ret.out)
        /\ Range(ret.out) \subseteq Range(ret.pool)

\* the movies of d by score descending, equal scores by movie_id ascending
ByScoreThenId(d) ==
    CHOOSE s \in SortValuesDescending(d) :
        \A i, j \in DOMAIN s : (i < j /\ d[s[i]] = d[s[j]]) => s[i] < s[j]

C4_InsufficientPoolFails ==
    (ret.op = "new_users" /\ (ret.b > Available \/ ret.a > Available)) =>
        ret.err # ""

\* C5: compare_movies with a legal threshold fails whenever the first
\* movie's score is zero.
C5_ZeroScoreFails ==
    (ret.op = "compare" /\ ret.c >= MinThreshold /\ ret.c <= MaxThreshold
        /\ ret.a \in DOMAIN df /\ df[ret.a] = 0) =>
        ret.err # ""

\* C6: for a legal threshold t and a nonzero first score, compare_movies
\* returns True exactly when |score_a - score_b| / score_a * 100 > t; it is
\* False for a = b, and for t = 0 it is True exactly when the scores differ.
C6_ComparesStrictly ==
    (ret.op = "compare" /\ ret.c >= MinThreshold /\ ret.c <= MaxThreshold
        /\ ret.a \in DOMAIN df /\ ret.b \in DOMAIN df /\ df[ret.a] # 0) =>
        /\ ret.err = ""
        /\ ret.flag <=> (Abs(df[ret.a] - df[ret.b]) * 100 > ret.c * df[ret.a])
        /\ ret.a = ret.b => ~ret.flag
        /\ ret.c = 0 => (ret.flag <=> df[ret.a] # df[ret.b])

\* a comparison whose percentage equals a positive threshold, answered False
C6_Witness ==
    /\ ret.op = "compare" /\ ret.err = ""
    /\ ret.c > 0 /\ df[ret.a] # 0 /\ ret.a # ret.b
    /\ Abs(df[ret.a] - df[ret.b]) * 100 = ret.c * df[ret.a]
    /\ ~ret.flag

\* C7: train and test of the split both have the shape of the input, and
\* every nonzero input entry is nonzero in exactly one of them at the same
\* (user, item) position.
C7_SplitPartitionsEntries ==
    split # None =>
        /\ Shape(split.train) = Shape(sparse_matrix)
        /\ Shape(split.test) = Shape(sparse_matrix)
        /\ \A u \in UserIds, c \in ColumnIds :
              sparse_matrix[u][c] # 0 =>
                  ((split.train[u][c] # 0) # (split.test[u][c] # 0))

\* C8 as stated: fit leaves the persisted model file unchanged.
C8_FitLeavesFileUnchanged ==
    [][ret'.op = "fit" => model_file' = model_file]_vars

\* C8 as amended: a fit that completes writes the newly trained model to
\* the model path; a fit that fails, and every other operation, leaves the
\* file unchanged.
C8_OnlyFitWritesFile ==
    [][IF ret'.op = "fit" /\ ret'.err = ""
       THEN model_file' = model' /\ model' # None
       ELSE model_file' = model_file]_vars

\* a completed fit, with the trained model on disk
C8_Witness ==
    /\ ret.op = "fit" /\ ret.err = ""
    /\ model # None /\ model_file = model

\* C9: user-factor row u of the trained model was learned from row u of the
\* interaction matrix.
C9_FactorsCoIndexed ==
    model # None =>
        \A u \in DOMAIN model.rows :
            /\ model.rows[u] = u
            /\ model.user_items[u] = sparse_matrix[u]

\* C10: get_cleaned_ratings reads the rating file of every index 1..N
\* exactly once.
C10_ReadsAllConfiguredFiles ==
    ret.op = "ratings" =>
        read_log = [k \in 1 .. NUMBER_OF_RATING_ADDRESSES |->
                       Replace(rating_address_template, k)]

====
